---- MODULE Spec2Model ----
(***************************************************************************)
(* State-machine model of the bounded-concurrency TCP host scanner of      *)
(* src/src/main.rs (NetworkScanner): the dispatch loops of scan(),         *)
(* scan_with_progress() and scan_hosts(), the worker tasks they spawn, the *)
(* tokio semaphore that limits them, the mpsc channel and atomic counters  *)
(* of scan_with_progress(), test_host(), and the pure get_stats().         *)
(*                                                                         *)
(* An Option<T> is a sequence of length 0 (None) or 1 (Some(v)).           *)
(* An Ipv4Addr is the tuple of its four octets.  A Duration is a natural    *)
(* number of time units; the clock of test_host is logical, one unit for   *)
(* each connection attempt awaited.  A finite f64 is the exact quotient it *)
(* stands for (IEEE rounding is not modelled); 0.0/0.0 is NaN.             *)
(* The network answers a connection attempt when the attempt is made, and  *)
(* gives the same answer for the same address and port within one scan.    *)
(***************************************************************************)
EXTENDS Integers, Sequences, FiniteSets, TLC

\* ------------------------------------------------------------------ bounds
MaxOctet   == 2    \* host octets start_ip, end_ip range over 1..MaxOctet
MaxPorts   == 2    \* the configured port list has 0..MaxPorts entries
MaxRtt     == 2    \* the round-trip times given to get_stats() range over 1..MaxRtt
MaxSlice   == 3    \* get_stats() is given 0..MaxSlice results
MaxTimeout == 8    \* the timeouts given to timeout() range over 0..MaxTimeout

\* ------------------------------------------------------- program constants
U8Modulus     == 256   \* start_ip, end_ip are u8
ProgressEvery == 25    \* the progress line is printed every 25 hosts
Percent       == 100   \* success_rate is a percentage
DefaultTimeout == 500  \* Config::default().timeout, in milliseconds

None == << >>
Some(v) == << v >>

\* Config::default().ports, the list the port lists of the model are cut from.
DefaultPorts == << 22, 23, 53, 80, 135, 139, 443, 445, 993, 995 >>

PortLists == { SubSeq(DefaultPorts, 1, n) : n \in 0..MaxPorts }

Range(seq) == { seq[j] : j \in 1..Len(seq) }

\* A subnet string is the sequence of its dot-separated numbers:
\* "10.0.0" (Config::default, main) and "172.20" (network-scanner.rs).
Subnets == { << 10, 0, 0 >>, << 172, 20 >> }

Octets == 1..MaxOctet

\* max_concurrent ranges over 0..MaxPermits: from no permit at all to one for
\* every target.
MaxPermits == MaxOctet

\* scan_hosts() is given 0..MaxHosts addresses.
MaxHosts == MaxOctet

\* The lenient reading of inet_aton, where "a.b.c" stands for a.b.0.c.
ParseIpInetAton(subnet, i) ==
    LET parts == Append(subnet, i)
    IN  IF Len(parts) \in { 3, 4 } /\ \A j \in 1..Len(parts) : parts[j] \in 0..(U8Modulus - 1)
        THEN Some(IF Len(parts) = 4 THEN parts
                  ELSE << parts[1], parts[2], 0, parts[3] >>)
        ELSE None

\* format!("{}.{}", subnet, i).parse::<Ipv4Addr>(): Some(address) exactly when
\* the text has four numbers, each at most 255.
ParseIp(subnet, i) ==
    LET parts == Append(subnet, i)
    IN  IF Len(parts) = 4 /\ \A j \in 1..4 : parts[j] \in 0..(U8Modulus - 1)
        THEN Some(parts)
        ELSE None

\* The addresses a scan of a range of the model can target.
Addrs == { << 10, 0, 0, i >> : i \in Octets }

\* Ord for Ipv4Addr: the octets compared lexicographically.
RECURSIVE IpLessFrom(_, _, _)
IpLessFrom(a, b, j) ==
    IF j > 4 THEN FALSE
    ELSE IF a[j] # b[j] THEN a[j] < b[j]
    ELSE IpLessFrom(a, b, j + 1)

IpLess(a, b) == IpLessFrom(a, b, 1)

IpLeq(a, b) == ~IpLess(b, a)

\* The iteration start_ip..=end_ip of the dispatch loops.
RangeInclusive(start, end) ==
    IF start <= end THEN [ j \in 1..(end - start + 1) |-> start + j - 1 ] ELSE << >>

\* ---------------------------------------------------------------- results
AliveResult(ip, port, rtt) ==
    [ ip |-> ip, alive |-> TRUE, rtt |-> Some(rtt), open_port |-> Some(port) ]

DeadResult(ip) ==
    [ ip |-> ip, alive |-> FALSE, rtt |-> None, open_port |-> None ]

\* slice::sort_by_key(|r| r.ip): a stable sort, here by insertion.
RECURSIVE InsertByIp(_, _)
InsertByIp(sorted, r) ==
    IF sorted = << >> THEN << r >>
    ELSE IF IpLess(r.ip, Head(sorted).ip) THEN << r >> \o sorted
    ELSE << Head(sorted) >> \o InsertByIp(Tail(sorted), r)

SortIdentity(rs) == rs

RECURSIVE SortByIp(_)
SortByIp(rs) ==
    IF rs = << >> THEN << >>
    ELSE InsertByIp(SortByIp(SubSeq(rs, 1, Len(rs) - 1)), rs[Len(rs)])

VARIABLES
    config,       \* NetworkScanner.config
    listening,    \* the (address, port) pairs found to accept a connection
    refusing,     \* the (address, port) pairs found to refuse one, or to time out
    mode,         \* which operation was called: "idle" before the call
    pc,           \* position of the calling coroutine
    hosts,        \* the Vec<Ipv4Addr> given to scan_hosts
    pending,      \* what the dispatch loop has not reached yet: octets of the range,
                  \* or positions in hosts
    tasks,        \* Vec<JoinHandle>: the spawned tasks, in spawn order
    permits,      \* free permits of the semaphore
    chan,         \* results sent on the mpsc channel and not received yet
    results,      \* the local Vec the calling coroutine collects into
    completed,    \* AtomicU64 completed
    alive_count,  \* AtomicU64 alive_count
    total_hosts,  \* total_hosts of scan_with_progress
    ret,          \* the value the operation returned
    stats_in,     \* the slice given to get_stats
    stats_out     \* what get_stats returned

vars == << config, listening, refusing, mode, pc, hosts, pending, tasks, permits, chan, results,
           completed, alive_count, total_hosts, ret, stats_in, stats_out >>

scanVars == << config, listening, refusing, mode, pc, hosts, pending, tasks, permits, chan, results,
               completed, alive_count, total_hosts, ret >>

statsVars == << stats_in, stats_out >>

\* ------------------------------------------------------------ configuration
Configs ==
    [ subnet : Subnets, timeout : { DefaultTimeout }, max_concurrent : 0..MaxPermits,
      start_ip : Octets, end_ip : Octets, ports : PortLists ]

\* The lists of addresses scan_hosts() is called with, made of the addresses
\* "8.8.8.8" and "1.1.1.1" of example_usage: any order, repeats allowed.
HostAddrs == { << 8, 8, 8, 8 >>, << 1, 1, 1, 1 >> }

HostLists == UNION { [ 1..n -> HostAddrs ] : n \in 0..MaxHosts }

\* Result<Vec<ScanResult>, Box<dyn Error>>: value is the Vec of an Ok, error the
\* name of the error of an Err.
NoReturn == [ kind |-> "none", value |-> << >>, error |-> "" ]
Ok(v)    == [ kind |-> "Ok", value |-> v, error |-> "" ]
Err(e)   == [ kind |-> "Err", value |-> << >>, error |-> e ]

NoStats == [ kind |-> "none" ]

Init ==
    /\ config \in Configs
    /\ listening = { }
    /\ refusing = { }
    /\ mode = "idle"
    /\ pc = "idle"
    /\ hosts = << >>
    /\ pending = << >>
    /\ tasks = << >>
    /\ permits = 0
    /\ chan = << >>
    /\ results = << >>
    /\ completed = 0
    /\ alive_count = 0
    /\ total_hosts = 0
    /\ ret = NoReturn
    /\ stats_in = << >>
    /\ stats_out = NoStats

\* ------------------------------------------------------------ u8 arithmetic
\* end_ip - start_ip + 1 on u8: the wrapped value, and whether either operation
\* overflowed (a panic where overflow checks are compiled in, a wrap otherwise).
U8Overflows(start, end) == end < start \/ end - start + 1 >= U8Modulus

U8TotalHosts(start, end) == (((end - start) % U8Modulus) + 1) % U8Modulus

\* ---------------------------------------------------------------- semaphore
\* Semaphore::acquire completes only while a permit is free.
SemNoLimit(p) == TRUE

SemAvailable(p) == p > 0

\* Dropping a SemaphorePermit gives its permit back.
SemReleaseLeak(p) == p

SemRelease(p) == p + 1

\* ---------------------------------------------------------------- test_host
\* Duration / u32: panics when the divisor is zero.
DurationDiv(d, n) == IF n = 0 THEN None ELSE Some(d \div n)

\* The whole timeout for every port instead of a share of it.
PerPortTimeoutWhole(c) == Some(c.timeout)

per_port_timeout(c) == DurationDiv(c.timeout, Len(c.ports))

\* &port in &self.config.ports: the k-th port the loop tries.
PortAtReversed(ports, k) == ports[Len(ports) - k + 1]

PortAt(ports, k) == ports[k]

\* What timeout(per_port_timeout, TcpStream::connect(addr)).await can give for
\* this address and port: TRUE for Ok(Ok(_)), FALSE for Ok(Err(_)) and Err(_).
\* The network answers an attempt when it is made, and answers the same
\* address and port the same way for the rest of the scan.
ConnectOutcomes(ip, port) ==
    IF << ip, port >> \in listening THEN { TRUE }
    ELSE IF << ip, port >> \in refusing THEN { FALSE }
    ELSE BOOLEAN

DeadResultWithRtt(ip) ==
    [ ip |-> ip, alive |-> FALSE, rtt |-> Some(0), open_port |-> None ]

\* The result test_host returns when every port has failed.
ExhaustedResult(ip) == DeadResult(ip)

\* start_time.elapsed() when the k-th connection attempt has resolved.  Time is
\* logical: a task's clock advances by one unit for each attempt it awaits.
Elapsed(k) == k

\* One iteration of the loop of test_host, for the k-th port, whose connection
\* attempt gave `connected`: Some(result) when test_host returns after it, None
\* when the loop goes on to the next port.
TestHostStep(ip, k, connected) ==
    IF connected THEN Some(AliveResult(ip, PortAt(config.ports, k), Elapsed(k)))
    ELSE IF k = Len(config.ports) THEN Some(ExhaustedResult(ip))
    ELSE None

NewTask(ip) ==
    [ ip |-> ip, pc |-> "waiting", permit |-> FALSE, k |-> 0, result |-> None,
      cur |-> 0, seen |-> None ]

Finished(t) == tasks[t].pc \in { "done", "panicked" }

\* A task holds a permit from acquire() until _permit is dropped at its end.
Holding(t) == tasks[t].permit

Holders == { t \in 1..Len(tasks) : Holding(t) }

\* ------------------------------------------------------ the three operations
\* scan(): up to the dispatch loop.
scan ==
    /\ pc = "idle"
    /\ mode' = "scan"
    /\ permits' = config.max_concurrent
    /\ pending' = RangeInclusive(config.start_ip, config.end_ip)
    /\ pc' = "dispatch"
    /\ UNCHANGED << config, listening, refusing, tasks, chan, results, completed, alive_count,
                    total_hosts, ret, hosts, statsVars >>

\* scan_with_progress(): up to the dispatch loop.
scan_with_progress ==
    /\ pc = "idle"
    /\ mode' = "progress"
    /\ \/ /\ U8Overflows(config.start_ip, config.end_ip)
          /\ pc' = "panicked"
          /\ UNCHANGED << total_hosts, permits, pending >>
       \/ /\ total_hosts' = U8TotalHosts(config.start_ip, config.end_ip)
                /\ permits' = config.max_concurrent
          /\ pending' = RangeInclusive(config.start_ip, config.end_ip)
          /\ pc' = "dispatch"
    /\ UNCHANGED << config, listening, refusing, tasks, chan, results, completed, alive_count,
                    ret, hosts, statsVars >>

\* scan_hosts(hosts): up to the dispatch loop.
scan_hosts ==
    /\ pc = "idle"
    /\ \E list \in HostLists :
          /\ mode' = "hosts"
          /\ permits' = config.max_concurrent
          /\ hosts' = list
          /\ pending' = [ j \in 1..Len(list) |-> j ]
          /\ pc' = "dispatch"
    /\ UNCHANGED << config, listening, refusing, tasks, chan, results, completed, alive_count,
                    total_hosts, ret, statsVars >>

\* One iteration of the dispatch loop of scan() and scan_with_progress():
\* parse the address (the ? returns the error), spawn the task.
SpawnRange ==
    /\ pc = "dispatch"
    /\ mode \in { "scan", "progress" }
    /\ pending # << >>
    /\ LET ip == ParseIp(config.subnet, Head(pending))
       IN  IF ip = None
           THEN /\ ret' = Err("AddrParseError")
                /\ pc' = "returned"
                /\ UNCHANGED << tasks, pending >>
           ELSE /\ tasks' = Append(tasks, NewTask(ip[1]))
                /\ pending' = Tail(pending)
                /\ UNCHANGED << ret, pc >>
    /\ UNCHANGED << config, listening, refusing, mode, permits, chan, results, completed,
                    alive_count, total_hosts, hosts, statsVars >>

\* One iteration of the dispatch loop of scan_hosts().
SpawnHost ==
    /\ pc = "dispatch"
    /\ mode = "hosts"
    /\ pending # << >>
    /\ tasks' = Append(tasks, NewTask(hosts[Head(pending)]))
    /\ pending' = Tail(pending)
    /\ UNCHANGED << config, listening, refusing, mode, pc, permits, chan, results, completed,
                    alive_count, total_hosts, ret, hosts, statsVars >>

\* The loop is over: scan_with_progress drops its sender and starts receiving,
\* scan and scan_hosts await join_all.
DispatchDone ==
    /\ pc = "dispatch"
    /\ pending = << >>
    /\ pc' = IF mode = "progress" THEN "collect" ELSE "join"
    /\ UNCHANGED << config, listening, refusing, mode, pending, tasks, permits, chan, results,
                    completed, alive_count, total_hosts, ret, hosts, statsVars >>

\* --------------------------------------------------------- the spawned tasks
SetTask(t, fields) == [ tasks EXCEPT ![t] = fields ]

\* semaphore.acquire().await, then test_host up to its first connection
\* attempt; a panic there unwinds the task and drops the permit again.
Acquire(t) ==
    /\ tasks[t].pc = "waiting"
    /\ SemAvailable(permits)
    /\ IF per_port_timeout(config) = None
       THEN /\ tasks' = SetTask(t, [ tasks[t] EXCEPT !.pc = "panicked" ])
            /\ UNCHANGED permits
       ELSE /\ tasks' = SetTask(t, [ tasks[t] EXCEPT
                                      !.pc = "probing", !.permit = TRUE, !.k = 1 ])
            /\ permits' = permits - 1
    /\ UNCHANGED << config, listening, refusing, mode, pc, pending, chan, results, completed,
                    alive_count, total_hosts, ret, hosts, statsVars >>

\* One connection attempt of test_host resolves.  When test_host returns, the
\* task of scan() and scan_hosts() ends with the result and drops its permit;
\* the task of scan_with_progress() goes on to the counters.
Attempt(t) ==
    /\ tasks[t].pc = "probing"
    /\ LET ip   == tasks[t].ip
           port == PortAt(config.ports, tasks[t].k)
       IN  \E connected \in ConnectOutcomes(ip, port) :
              /\ listening' = IF connected THEN listening \cup { << ip, port >> } ELSE listening
              /\ refusing' = IF connected THEN refusing ELSE refusing \cup { << ip, port >> }
              /\ LET r == TestHostStep(ip, tasks[t].k, connected)
                 IN  IF r = None
                     THEN /\ tasks' = SetTask(t, [ tasks[t] EXCEPT !.k = @ + 1 ])
                          /\ UNCHANGED permits
                     ELSE IF mode = "progress"
                     THEN /\ tasks' = SetTask(t, [ tasks[t] EXCEPT !.pc = "count", !.result = r ])
                          /\ UNCHANGED permits
                     ELSE /\ tasks' = SetTask(t, [ tasks[t] EXCEPT
                                                    !.pc = "done", !.permit = FALSE,
                                                    !.result = r ])
                          /\ permits' = SemRelease(permits)
    /\ UNCHANGED << config, mode, pc, pending, chan, results, completed,
                    alive_count, total_hosts, ret, hosts, statsVars >>

\* The counter updated by a task whose permit is dropped when test_host returns.
FetchAddCompletedReleased(t) ==
    /\ tasks[t].pc = "count"
    /\ completed' = completed + 1
    /\ permits' = SemRelease(permits)
    /\ tasks' = SetTask(t, [ tasks[t] EXCEPT
                               !.cur = completed + 1,
                               !.permit = FALSE,
                               !.pc = IF tasks[t].result[1].alive THEN "alive" ELSE "send" ])
    /\ UNCHANGED << config, listening, refusing, mode, pc, pending, chan, results,
                    alive_count, total_hosts, ret, hosts, statsVars >>

\* completed.fetch_add(1, Relaxed) + 1
FetchAddCompleted(t) ==
    /\ tasks[t].pc = "count"
    /\ completed' = completed + 1
    /\ tasks' = SetTask(t, [ tasks[t] EXCEPT
                               !.cur = completed + 1,
                               !.pc = IF tasks[t].result[1].alive THEN "alive" ELSE "send" ])
    /\ UNCHANGED << config, listening, refusing, mode, pc, pending, permits, chan, results,
                    alive_count, total_hosts, ret, hosts, statsVars >>

\* alive_count.fetch_add(1, Relaxed)
FetchAddAlive(t) ==
    /\ tasks[t].pc = "alive"
    /\ alive_count' = alive_count + 1
    /\ tasks' = SetTask(t, [ tasks[t] EXCEPT !.pc = "send" ])
    /\ UNCHANGED << config, listening, refusing, mode, pc, pending, permits, chan, results,
                    completed, total_hosts, ret, hosts, statsVars >>

\* tx.send(result.clone())
Send(t) ==
    /\ tasks[t].pc = "send"
    /\ chan' = Append(chan, tasks[t].result[1])
    /\ tasks' = SetTask(t, [ tasks[t] EXCEPT !.pc = "report" ])
    /\ UNCHANGED << config, listening, refusing, mode, pc, pending, permits, results, completed,
                    alive_count, total_hosts, ret, hosts, statsVars >>

\* The progress indicator prints for this value of current_completed.
ProgressDue(cur, total) == cur % ProgressEvery = 0 \/ cur = total

\* The progress indicator (it loads alive_count when it prints), then the end
\* of the task: _permit and the task's sender are dropped.
Report(t) ==
    /\ tasks[t].pc = "report"
    /\ tasks' = SetTask(t, [ tasks[t] EXCEPT
                               !.pc = "done",
                               !.permit = FALSE,
                               !.seen = IF ProgressDue(tasks[t].cur, total_hosts)
                                        THEN Some(alive_count) ELSE None ])
    /\ permits' = SemRelease(permits)
    /\ UNCHANGED << config, listening, refusing, mode, pc, pending, chan, results, completed,
                    alive_count, total_hosts, ret, hosts, statsVars >>

\* ------------------------------------------------- collecting and returning
\* Every sender is gone: scan_with_progress dropped its own before receiving,
\* and each task drops its clone when it ends.
ChannelClosedEarly == TRUE

ChannelClosed == \A t \in 1..Len(tasks) : Finished(t)

\* rx.recv().await gives Some(result)
Recv ==
    /\ pc = "collect"
    /\ chan # << >>
    /\ results' = Append(results, Head(chan))
    /\ chan' = Tail(chan)
    /\ UNCHANGED << config, listening, refusing, mode, pc, pending, tasks, permits, completed,
                    alive_count, total_hosts, ret, hosts, statsVars >>

\* rx.recv().await gives None: the channel is empty and closed.
RecvNone ==
    /\ pc = "collect"
    /\ chan = << >>
    /\ ChannelClosed
    /\ pc' = "join"
    /\ UNCHANGED << config, listening, refusing, mode, pending, tasks, permits, chan, results,
                    completed, alive_count, total_hosts, ret, hosts, statsVars >>

\* join_all(tasks).await completes when every task has ended.
JoinNoWait == TRUE

JoinReady == \A t \in 1..Len(tasks) : Finished(t)

JoinedDeadIsError ==
    IF \E t \in 1..Len(tasks) : tasks[t].result = None \/ ~tasks[t].result[1].alive
    THEN Err("JoinError")
    ELSE Ok([ t \in 1..Len(tasks) |-> tasks[t].result[1] ])

\* What join_all hands to scan() and scan_hosts(): the tasks' outputs in spawn
\* order, or the JoinError of a task that panicked.
Joined ==
    IF \E t \in 1..Len(tasks) : tasks[t].result = None
    THEN Err("JoinError")
    ELSE Ok([ t \in 1..Len(tasks) |-> tasks[t].result[1] ])

\* scan_with_progress() after the receive loop: join_all (its outcome is
\* ignored), the sort, and the return.
ReturnProgress ==
    /\ pc = "join"
    /\ mode = "progress"
    /\ JoinReady
    /\ results' = SortByIp(results)
    /\ ret' = Ok(SortByIp(results))
    /\ pc' = "returned"
    /\ UNCHANGED << config, listening, refusing, mode, pending, tasks, permits, chan, completed,
                    alive_count, total_hosts, hosts, statsVars >>

\* scan() and scan_hosts() after the loop: join_all, the ? on its outcome, the
\* sort, and the return.
ReturnJoined ==
    /\ pc = "join"
    /\ mode \in { "scan", "hosts" }
    /\ JoinReady
    /\ IF Joined.kind = "Err"
       THEN /\ ret' = Joined
            /\ UNCHANGED results
       ELSE /\ results' = SortByIp(Joined.value)
            /\ ret' = Ok(SortByIp(Joined.value))
    /\ pc' = "returned"
    /\ UNCHANGED << config, listening, refusing, mode, pending, tasks, permits, chan, completed,
                    alive_count, total_hosts, hosts, statsVars >>

Tasks == 1..Len(tasks)

AcquireStep == \E t \in Tasks : Acquire(t)

AttemptStep == \E t \in Tasks : Attempt(t)

FetchAddCompletedStep == \E t \in Tasks : FetchAddCompleted(t)

FetchAddAliveStep == \E t \in Tasks : FetchAddAlive(t)

SendStep == \E t \in Tasks : Send(t)

ReportStep == \E t \in Tasks : Report(t)

Next ==
    \/ scan
    \/ scan_with_progress
    \/ scan_hosts
    \/ SpawnRange
    \/ SpawnHost
    \/ DispatchDone
    \/ AcquireStep
    \/ AttemptStep
    \/ FetchAddCompletedStep
    \/ FetchAddAliveStep
    \/ SendStep
    \/ ReportStep
    \/ Recv
    \/ RecvNone
    \/ ReturnProgress
    \/ ReturnJoined

Spec == Init /\ [][Next]_vars


\* ---------------------------------------------------------------- get_stats
\* results.iter().filter(|r| r.alive).count()
RECURSIVE AliveCount(_)
AliveCount(rs) ==
    IF rs = << >> THEN 0
    ELSE (IF Head(rs).alive THEN 1 ELSE 0) + AliveCount(Tail(rs))

\* results.iter().filter_map(|r| r.rtt).sum(): every rtt that is Some.
RECURSIVE TotalRtt(_)
TotalRtt(rs) ==
    IF rs = << >> THEN 0
    ELSE (IF Head(rs).rtt # None THEN Head(rs).rtt[1] ELSE 0) + TotalRtt(Tail(rs))

\* avg_rtt of get_stats: None stands for a panic of the division, Some(None)
\* and Some(Some(d)) for the Option<Duration> it evaluates to.
AvgRttUnguarded(rs) ==
    LET q == DurationDiv(TotalRtt(rs), AliveCount(rs))
    IN  IF q = None THEN None ELSE Some(q)

AvgRttOverTotal(rs) ==
    IF AliveCount(rs) > 0
    THEN LET q == DurationDiv(TotalRtt(rs), Len(rs))
         IN  IF q = None THEN None ELSE Some(q)
    ELSE Some(None)

AvgRtt(rs) ==
    IF AliveCount(rs) > 0
    THEN LET q == DurationDiv(TotalRtt(rs), AliveCount(rs))
         IN  IF q = None THEN None ELSE Some(q)
    ELSE Some(None)

\* f64 values: a finite one is the exact quotient num/den it stands for; the
\* division 0.0/0.0 gives NaN and x/0.0 an infinity, neither of them a panic.
NaN == [ kind |-> "NaN" ]
Infinity == [ kind |-> "inf" ]
Finite(n, d) == [ kind |-> "finite", num |-> n, den |-> d ]

F64Div(a, b) ==
    IF b = 0 THEN (IF a = 0 THEN NaN ELSE Infinity) ELSE Finite(a, b)

F64Mul(x, c) ==
    IF x.kind = "finite" THEN Finite(x.num * c, x.den) ELSE x

\* (alive as f64 / total as f64) * 100.0
SuccessRate(alive, total) == F64Mul(F64Div(alive, total), Percent)

get_stats(rs) ==
    IF AvgRtt(rs) = None
    THEN [ kind |-> "panic" ]
    ELSE [ kind |-> "stats",
           total_hosts |-> Len(rs),
           alive_hosts |-> AliveCount(rs),
           success_rate |-> SuccessRate(AliveCount(rs), Len(rs)),
           average_rtt |-> AvgRtt(rs)[1] ]

\* The results test_host can produce, for the slices given to get_stats.
ScanResults ==
    { DeadResult(ip) : ip \in Addrs }
        \cup { AliveResult(ip, port, rtt) :
                  ip \in Addrs, port \in Range(SubSeq(DefaultPorts, 1, MaxPorts)),
                  rtt \in 1..MaxRtt }

Slices == UNION { [ 1..n -> ScanResults ] : n \in 0..MaxSlice }

\* NetworkScanner::new("10.0.0"): Config::default() cut to the bounds.
ScannerNew ==
    [ subnet |-> << 10, 0, 0 >>, timeout |-> DefaultTimeout, max_concurrent |-> MaxPermits,
      start_ip |-> 1, end_ip |-> MaxOctet, ports |-> SubSeq(DefaultPorts, 1, MaxPorts) ]

StatsInit ==
    /\ config = ScannerNew
    /\ listening = { }
    /\ refusing = { }
    /\ mode = "idle"
    /\ pc = "idle"
    /\ hosts = << >>
    /\ pending = << >>
    /\ tasks = << >>
    /\ permits = 0
    /\ chan = << >>
    /\ results = << >>
    /\ completed = 0
    /\ alive_count = 0
    /\ total_hosts = 0
    /\ ret = NoReturn
    /\ stats_in \in Slices
    /\ stats_out = NoStats

\* NetworkScanner::get_stats(&results)
GetStats ==
    /\ stats_out = NoStats
    /\ stats_out' = get_stats(stats_in)
    /\ UNCHANGED << scanVars, stats_in >>

StatsNext == GetStats

SpecStats == StatsInit /\ [][StatsNext]_vars


\* -------------------------------------------------------------- the builder
\* The Durations given to timeout() and to with_config.
Timeouts == 0..MaxTimeout \cup { DefaultTimeout }

\* The values with_config can be given: every field of Config is public.
BuilderConfigs ==
    [ subnet : Subnets, timeout : Timeouts, max_concurrent : 0..MaxPermits,
      start_ip : Octets, end_ip : Octets, ports : PortLists ]

\* NetworkScanner::new(subnet)
new ==
    /\ pc = "idle"
    /\ \E subnet \in Subnets : config' = [ ScannerNew EXCEPT !.subnet = subnet ]
    /\ UNCHANGED << listening, refusing, mode, pc, pending, tasks, permits, chan, results,
                    completed, alive_count, total_hosts, ret, hosts, statsVars >>

\* NetworkScanner::with_config(config)
with_config ==
    /\ pc = "idle"
    /\ config' \in BuilderConfigs
    /\ UNCHANGED << listening, refusing, mode, pc, pending, tasks, permits, chan, results,
                    completed, alive_count, total_hosts, ret, hosts, statsVars >>

\* scanner.max_concurrent(max)
max_concurrent ==
    /\ pc = "idle"
    /\ \E max \in 0..MaxPermits : config' = [ config EXCEPT !.max_concurrent = max ]
    /\ UNCHANGED << listening, refusing, mode, pc, pending, tasks, permits, chan, results,
                    completed, alive_count, total_hosts, ret, hosts, statsVars >>

\* scanner.timeout(timeout)
timeout ==
    /\ pc = "idle"
    /\ \E d \in Timeouts : config' = [ config EXCEPT !.timeout = d ]
    /\ UNCHANGED << listening, refusing, mode, pc, pending, tasks, permits, chan, results,
                    completed, alive_count, total_hosts, ret, hosts, statsVars >>

\* scanner.ip_range(start, end)
ip_range ==
    /\ pc = "idle"
    /\ \E start \in Octets, end \in Octets :
          config' = [ config EXCEPT !.start_ip = start, !.end_ip = end ]
    /\ UNCHANGED << listening, refusing, mode, pc, pending, tasks, permits, chan, results,
                    completed, alive_count, total_hosts, ret, hosts, statsVars >>

\* scanner.ports(ports)
ports ==
    /\ pc = "idle"
    /\ \E ps \in PortLists : config' = [ config EXCEPT !.ports = ps ]
    /\ UNCHANGED << listening, refusing, mode, pc, pending, tasks, permits, chan, results,
                    completed, alive_count, total_hosts, ret, hosts, statsVars >>

\* The scanner right after NetworkScanner::new("10.0.0").
BuilderInit ==
    /\ config = ScannerNew
    /\ listening = { }
    /\ refusing = { }
    /\ mode = "idle"
    /\ pc = "idle"
    /\ hosts = << >>
    /\ pending = << >>
    /\ tasks = << >>
    /\ permits = 0
    /\ chan = << >>
    /\ results = << >>
    /\ completed = 0
    /\ alive_count = 0
    /\ total_hosts = 0
    /\ ret = NoReturn
    /\ stats_in = << >>
    /\ stats_out = NoStats

BuilderNext ==
    \/ new
    \/ with_config
    \/ max_concurrent
    \/ timeout
    \/ ip_range
    \/ ports
    \/ Next

SpecBuilder == BuilderInit /\ [][BuilderNext]_vars

\* ------------------------------------------------------ the u8 host range
\* start_ip and end_ip are u8: ip_range takes every pair of them.
U8 == 0..(U8Modulus - 1)

RangeInit ==
    /\ config \in { [ ScannerNew EXCEPT !.start_ip = start, !.end_ip = end ] :
                       start \in U8, end \in U8 }
    /\ listening = { }
    /\ refusing = { }
    /\ mode = "idle"
    /\ pc = "idle"
    /\ hosts = << >>
    /\ pending = << >>
    /\ tasks = << >>
    /\ permits = 0
    /\ chan = << >>
    /\ results = << >>
    /\ completed = 0
    /\ alive_count = 0
    /\ total_hosts = 0
    /\ ret = NoReturn
    /\ stats_in = << >>
    /\ stats_out = NoStats

\* scan_with_progress() up to its dispatch loop: total_hosts and the range.
RangeNext == scan_with_progress

SpecRange == RangeInit /\ [][RangeNext]_vars

\* ------------------------------------------------- the budget of test_host
\* One scanner per timeout and port list: NetworkScanner::new("10.0.0") with
\* .timeout(d), .ports(p), .max_concurrent(1) and .ip_range(1, 1), d a positive
\* Duration (counted in its own unit, the nanosecond) and p not empty.
ProbeConfigs ==
    [ subnet : { << 10, 0, 0 >> }, timeout : 1..MaxTimeout, max_concurrent : { 1 },
      start_ip : { 1 }, end_ip : { 1 },
      ports : { SubSeq(DefaultPorts, 1, n) : n \in 1..(MaxPorts + 1) } ]

ProbeInit ==
    /\ config \in ProbeConfigs
    /\ listening = { }
    /\ refusing = { }
    /\ mode = "idle"
    /\ pc = "idle"
    /\ hosts = << >>
    /\ pending = << >>
    /\ tasks = << >>
    /\ permits = 0
    /\ chan = << >>
    /\ results = << >>
    /\ completed = 0
    /\ alive_count = 0
    /\ total_hosts = 0
    /\ ret = NoReturn
    /\ stats_in = << >>
    /\ stats_out = NoStats

SpecProbe == ProbeInit /\ [][Next]_vars

\* ------------------------------------------------------------- fair runs
\* The runtime polls every spawned task and the calling coroutine again and
\* again, and every connection attempt resolves (it is wrapped in a timeout).
\* Nobody is obliged to call an operation.
MaxTasks == MaxOctet

\* The steps of the calling coroutine after the call; one is enabled at a time.
Coordinator ==
    \/ SpawnRange
    \/ SpawnHost
    \/ DispatchDone
    \/ Recv
    \/ RecvNone
    \/ ReturnProgress
    \/ ReturnJoined

\* The steps of the t-th spawned task; one is enabled at a time.
TaskStep(t) ==
    /\ t \in Tasks
    /\ \/ Acquire(t)
       \/ Attempt(t)
       \/ FetchAddCompleted(t)
       \/ FetchAddAlive(t)
       \/ Send(t)
       \/ Report(t)

Fairness ==
    /\ WF_vars(Coordinator)
    /\ \A t \in 1..MaxTasks : WF_vars(TaskStep(t))

SpecLive == Init /\ [][Next]_vars /\ Fairness

\* ================================================================ claims
Returned == pc = "returned"

ReturnedOk == pc = "returned" /\ ret.kind = "Ok"

TargetIp(i) == << 10, 0, 0, i >>

\* C1: in scan(), scan_with_progress() and scan_hosts() the number of tasks
\* that hold a semaphore permit never exceeds config.max_concurrent; with
\* max_concurrent = 1 no two tasks are inside test_host at once.
C1_AtMostMaxConcurrent ==
    /\ Cardinality(Holders) <= config.max_concurrent
    /\ config.max_concurrent = 1 =>
          \A t, u \in Tasks : Holding(t) /\ Holding(u) => t = u

\* C1 witness: every permit is taken and another spawned task is held back.
C1_Witness ==
    /\ config.max_concurrent >= 1
    /\ Cardinality(Holders) = config.max_concurrent
    /\ \E t \in Tasks : tasks[t].pc = "waiting"

\* C2: for a range with start_ip <= end_ip, a parseable subnet, a non-empty
\* port list and max_concurrent >= 1, the report scan() and scan_with_progress()
\* return holds exactly one result for each address subnet.i, i in
\* start_ip..=end_ip: as many results as targets, none twice, none missing.
C2_ExactlyOncePerTarget ==
    ( /\ ReturnedOk
      /\ mode \in { "scan", "progress" }
      /\ config.start_ip <= config.end_ip
      /\ ParseIp(config.subnet, config.start_ip) # None
      /\ config.ports # << >>
      /\ config.max_concurrent >= 1 )
    => /\ Len(ret.value) = config.end_ip - config.start_ip + 1
       /\ \A i \in config.start_ip..config.end_ip :
             Cardinality({ j \in 1..Len(ret.value) : ret.value[j].ip = TargetIp(i) }) = 1

\* C2 witness: scan_with_progress() has returned the report of a range of
\* more than one address.
C2_Witness ==
    /\ ReturnedOk
    /\ mode = "progress"
    /\ config.start_ip < config.end_ip
    /\ Len(ret.value) = config.end_ip - config.start_ip + 1

\* C3: the report returned by scan(), scan_with_progress() and scan_hosts() is
\* sorted by ascending address, whatever the order in which the probes ended
\* and the results arrived.
C3_SortedByAddress ==
    ReturnedOk =>
       \A j \in 1..(Len(ret.value) - 1) : IpLeq(ret.value[j].ip, ret.value[j + 1].ip)

\* C3 witness: scan_hosts() was given two addresses in descending order and
\* has returned both.
C3_Witness ==
    /\ ReturnedOk
    /\ mode = "hosts"
    /\ Len(tasks) = 2
    /\ IpLess(tasks[2].ip, tasks[1].ip)
    /\ Len(ret.value) = 2

\* C4: when scan(), scan_with_progress() or scan_hosts() has returned, no
\* spawned task is still waiting for a permit, probing or holding an unsent
\* result, no result is left in the channel, and the results of the tasks are
\* the returned collection.
C4_ReturnsAfterAllTasks ==
    Returned =>
       /\ \A t \in Tasks : Finished(t)
       /\ chan = << >>
       /\ ret.kind = "Ok" =>
             /\ Len(ret.value) = Cardinality({ t \in Tasks : tasks[t].result # None })
             /\ \A t \in Tasks : tasks[t].result # None =>
                   \E j \in 1..Len(ret.value) : ret.value[j] = tasks[t].result[1]

\* C4 witness: an operation has returned the results of two tasks.
C4_Witness ==
    /\ ReturnedOk
    /\ Len(tasks) = 2
    /\ Len(ret.value) = 2
    /\ config.max_concurrent = 1

\* C5: with max_concurrent >= 1, under fair scheduling an operation whose
\* dispatch loop has started eventually returns, every task it spawned having
\* got a permit and run to its end: no target waits forever.
C5_EveryTargetDispatched ==
    (pc = "dispatch" /\ config.max_concurrent >= 1)
       ~> (Returned /\ \A t \in Tasks : tasks[t].pc \in { "done", "panicked" })

\* C5 witness: an operation with more targets than permits has returned, each
\* task having had its turn.
C5_Witness ==
    /\ Returned
    /\ config.max_concurrent = 1
    /\ Len(tasks) = MaxTasks
    /\ \A t \in Tasks : tasks[t].k >= 1

\* C6: test_host tries the ports in list order; an alive result names the
\* first port of the list that accepted: every port before it was tried and
\* failed, no port after it was tried at all; and a target one of whose tried
\* ports accepted is reported alive.
C6_FirstMatchWins ==
    \A t \in Tasks : tasks[t].result # None =>
       LET r  == tasks[t].result[1]
           ps == config.ports
       IN  /\ r.alive =>
                \E k \in 1..Len(ps) :
                   /\ r.open_port = Some(ps[k])
                   /\ tasks[t].k = k
                   /\ << r.ip, ps[k] >> \in listening
                   /\ \A j \in 1..(k - 1) : << r.ip, ps[j] >> \in refusing
                   /\ \A j \in (k + 1)..Len(ps) : << r.ip, ps[j] >> \notin listening \cup refusing
           /\ (\E j \in 1..Len(ps) : << r.ip, ps[j] >> \in listening) => r.alive

\* C6 witness: one target answered on the first port, the second port left
\* untried, and another answered on the second port after the first failed.
C6_Witness ==
    /\ Len(config.ports) >= 2
    /\ \E t, u \in Tasks :
          /\ tasks[t].result # None
          /\ tasks[t].result[1].open_port = Some(config.ports[1])
          /\ tasks[u].result # None
          /\ tasks[u].result[1].open_port = Some(config.ports[2])

\* C7: a target all of whose connection attempts failed gets alive = false,
\* open_port = None, rtt = None; that result is in the report, and the
\* operation returns an error only for an unparseable address (scan and
\* scan_with_progress) or an empty port list, never because of dead hosts.
AllAttemptsFailed(ip) ==
    /\ config.ports # << >>
    /\ \A j \in 1..Len(config.ports) : << ip, config.ports[j] >> \in refusing

C7_DeadHostIsData ==
    /\ \A t \in Tasks :
          (tasks[t].result # None /\ AllAttemptsFailed(tasks[t].ip)) =>
             /\ tasks[t].result[1] = DeadResult(tasks[t].ip)
             /\ ReturnedOk => \E j \in 1..Len(ret.value) : ret.value[j] = DeadResult(tasks[t].ip)
    /\ ( /\ Returned
         /\ config.ports # << >>
         /\ mode = "hosts" \/ ParseIp(config.subnet, config.start_ip) # None )
          => ret.kind = "Ok"

\* C7 witness: an operation has returned Ok with a dead host and an alive
\* host in the report.
C7_Witness ==
    /\ ReturnedOk
    /\ \E j \in 1..Len(ret.value) : ~ret.value[j].alive /\ AllAttemptsFailed(ret.value[j].ip)
    /\ \E j \in 1..Len(ret.value) : ret.value[j].alive

\* C8: in every ScanResult test_host has produced, wherever it is (with its
\* task, in the channel, collected, returned), open_port is set exactly when
\* alive is true and rtt is set exactly when alive is true.
AllResults ==
    { tasks[t].result[1] : t \in { u \in Tasks : tasks[u].result # None } }
        \cup Range(chan) \cup Range(results)
        \cup (IF ret.kind = "Ok" THEN Range(ret.value) ELSE { })

C8_PortAndRttIffAlive ==
    \A r \in AllResults :
       /\ (r.open_port # None) <=> r.alive
       /\ (r.rtt # None) <=> r.alive

\* C8 witness: an alive result is in the channel while a dead one is with its
\* task.
C8_Witness ==
    /\ \E j \in 1..Len(chan) : chan[j].alive
    /\ \E t \in Tasks : tasks[t].result # None /\ ~tasks[t].result[1].alive

\* C9: for a non-empty slice of n results of which k are alive, get_stats
\* returns total_hosts = n, alive_hosts = k, success_rate = 100*k/n, and
\* average_rtt = the mean (a Duration: the quotient without its fraction) of
\* the rtt of the alive entries alone; None when there is none.
RECURSIVE AliveRttSum(_)
AliveRttSum(rs) ==
    IF rs = << >> THEN 0
    ELSE (IF Head(rs).alive THEN Head(rs).rtt[1] ELSE 0) + AliveRttSum(Tail(rs))

AliveEntries(rs) == { j \in 1..Len(rs) : rs[j].alive }

C10_EmptySlice ==
    (stats_out # NoStats /\ stats_in = << >>) =>
       stats_out = [ kind |-> "stats", total_hosts |-> 0, alive_hosts |-> 0,
                     success_rate |-> NaN, average_rtt |-> None ]

\* C10 witness: get_stats has run on the empty slice.
C10_Witness ==
    /\ stats_in = << >>
    /\ stats_out # NoStats

\* C11: enumerating a range fails with an error whenever start > end or one of
\* start, end is outside 1..254: scan() and scan_with_progress() then return an
\* Err and no report; and for 1 <= start <= end <= 254 the dispatch loop
\* enumerates exactly subnet.start .. subnet.end in ascending order.
InvalidRange(start, end) == start > end \/ start \notin 1..254 \/ end \notin 1..254

C11_InvalidRangeIsError ==
    (mode \in { "scan", "progress" } /\ pc \notin { "idle", "dispatch", "panicked" }) =>
       IF InvalidRange(config.start_ip, config.end_ip)
       THEN Returned /\ ret.kind = "Err"
       ELSE ret.kind # "Err" =>
               /\ Len(tasks) = config.end_ip - config.start_ip + 1
               /\ \A t \in Tasks : tasks[t].ip = TargetIp(config.start_ip + t - 1)

\* C12: when the subnet joined with a host octet is no IPv4 address, scan() and
\* scan_with_progress() get no further than the dispatch loop and return the
\* parse error; then and before, no task has been spawned, no permit is taken
\* and no connection has been attempted.
DottedQuad(parts) ==
    Len(parts) = 4 /\ \A j \in 1..4 : parts[j] \in 0..(U8Modulus - 1)

C12_ParseErrorBeforeAnySpawn ==
    ( /\ mode \in { "scan", "progress" }
      /\ config.start_ip <= config.end_ip
      /\ ~DottedQuad(Append(config.subnet, config.start_ip)) )
    => /\ pc \in { "dispatch", "returned" }
       /\ Returned => ret = Err("AddrParseError")
       /\ tasks = << >>
       /\ permits = config.max_concurrent
       /\ listening \cup refusing = { }

\* C12 witness: scan_with_progress() has returned the parse error for a range
\* of more than one address.
C12_Witness ==
    /\ Returned
    /\ mode = "progress"
    /\ ret = Err("AddrParseError")
    /\ config.start_ip < config.end_ip
    /\ config.max_concurrent >= 1

\* C13: within one call no address is probed twice: test_host runs at most
\* once for each distinct address, also when the list given to scan_hosts
\* repeats one, and the report holds at most one result for each address.
C13_NoTargetProbedTwice ==
    /\ \A t, u \in Tasks :
          (tasks[t].k >= 1 /\ tasks[u].k >= 1 /\ tasks[t].ip = tasks[u].ip) => t = u
    /\ ReturnedOk =>
          \A i, j \in 1..Len(ret.value) : ret.value[i].ip = ret.value[j].ip => i = j

\* C14: for a timeout > 0 and a non-empty port list, test_host makes at most
\* ports.len() attempts, each waiting at most per_port_timeout = timeout /
\* ports.len(); the slices of the attempts a task has made never add up to more
\* than config.timeout.
SlicesSpent(t) == tasks[t].k * per_port_timeout(config)[1]

C14_SlicesWithinTimeout ==
    (config.timeout > 0 /\ config.ports # << >>) =>
       \A t \in Tasks :
          /\ tasks[t].k <= Len(config.ports)
          /\ per_port_timeout(config) # None
          /\ SlicesSpent(t) <= config.timeout

\* C14 witness: a task has tried every port of a list of three in vain, with a
\* timeout that three does not divide: part of the budget is left unused.
C14_Witness ==
    /\ Len(config.ports) = 3
    /\ config.timeout % 3 # 0
    /\ \E t \in Tasks :
          /\ tasks[t].result = Some(DeadResult(tasks[t].ip))
          /\ tasks[t].k = 3
          /\ SlicesSpent(t) < config.timeout

\* C15: in scan_with_progress the counters lose no update (every task that
\* has counted itself got its own value of completed, and completed is their
\* number), and when the operation returns completed is the number of targets
\* and alive_count the number of alive results in the report.
C15_CountersExact ==
    mode = "progress" =>
       /\ completed = Cardinality({ t \in Tasks : tasks[t].cur >= 1 })
       /\ \A t, u \in Tasks : (tasks[t].cur >= 1 /\ tasks[t].cur = tasks[u].cur) => t = u
       /\ ReturnedOk =>
             /\ completed = Len(RangeInclusive(config.start_ip, config.end_ip))
             /\ alive_count = AliveCount(ret.value)

\* C16: every configuration a scanner holds after any sequence of new,
\* with_config, max_concurrent, timeout, ip_range and ports has
\* max_concurrent >= 1, a non-empty port list and timeout > 0, so that no
\* scan starts with another.
ValidConfig(c) == c.max_concurrent >= 1 /\ c.ports # << >> /\ c.timeout > 0

C16_ConfigInvariant == ValidConfig(config)

\* C17: in scan_with_progress the slot of a target is already released when
\* its result is sent and when the counters are updated for it (acquire,
\* probe, release, send, count).
C17_ReleasedBeforeSend ==
    mode = "progress" =>
       \A t \in Tasks : tasks[t].pc \in { "count", "alive", "send" } => ~Holding(t)

\* C17 as amended: in scan_with_progress the order for each target is acquire,
\* probe, count (completed, then alive_count), send, progress line, release at
\* the end of the task: the slot is still held when the counters are updated
\* and when the result is sent, the result is sent after the counters are
\* updated, and the slot is free again once the task has ended.
Sent(t) ==
    /\ tasks[t].result # None
    /\ tasks[t].result[1] \in Range(chan) \cup Range(results)

C17_SlotHeldUntilTaskEnd ==
    mode = "progress" =>
       /\ \A t \in Tasks :
             /\ tasks[t].pc \in { "count", "alive", "send", "report" } =>
                   Holding(t) /\ tasks[t].result # None
             /\ tasks[t].pc \in { "count", "alive", "send" } => ~Sent(t)
             /\ tasks[t].pc = "count" <=> (tasks[t].result # None /\ tasks[t].cur = 0)
             /\ Sent(t) => tasks[t].cur >= 1
             /\ tasks[t].pc = "done" => Sent(t) /\ ~Holding(t)
       /\ pc \notin { "idle", "panicked" } =>
             permits + Cardinality(Holders) = config.max_concurrent

\* C17 witness: a task that has counted itself is about to send its result,
\* its permit still in hand, while the other task waits for that permit.
C17_Witness ==
    /\ mode = "progress"
    /\ config.max_concurrent = 1
    /\ \E t, u \in Tasks :
          /\ tasks[t].pc = "send"
          /\ tasks[t].cur = 1
          /\ Holding(t)
          /\ tasks[u].pc = "waiting"

\* C18: for one configuration and one outcome of every (address, port) pair,
\* scan() and scan_with_progress() return the same (ip, alive, open_port)
\* triples in every interleaving, the ones the outcomes determine for the
\* targets in ascending order, and so does scan_hosts() for the addresses it
\* is given.
Triple(r) == << r.ip, r.alive, r.open_port >>

Accepting(ip) == { k \in 1..Len(config.ports) : << ip, config.ports[k] >> \in listening }

ExpectedTriple(ip) ==
    IF Accepting(ip) = { } THEN << ip, FALSE, None >>
    ELSE << ip, TRUE,
            Some(config.ports[CHOOSE k \in Accepting(ip) : \A j \in Accepting(ip) : k <= j]) >>

RangeTargets ==
    [ j \in 1..Len(RangeInclusive(config.start_ip, config.end_ip)) |->
         TargetIp(config.start_ip + j - 1) ]

C18_SameReport ==
    /\ ( /\ mode \in { "scan", "progress" }
         /\ Returned
         /\ DottedQuad(Append(config.subnet, config.start_ip)) )
       => /\ ret.kind = "Ok"
          /\ [ j \in 1..Len(ret.value) |-> Triple(ret.value[j]) ]
                = [ j \in 1..Len(RangeTargets) |-> ExpectedTriple(RangeTargets[j]) ]
    /\ (mode = "hosts" /\ Returned)
       => /\ ret.kind = "Ok"
          /\ Len(ret.value) = Len(tasks)
          /\ { Triple(ret.value[j]) : j \in 1..Len(ret.value) }
                = { ExpectedTriple(tasks[t].ip) : t \in Tasks }

\* C19: in scan_with_progress exactly one task gets current_completed = total
\* from fetch_add, and the alive_count it loads for its progress line is the
\* number of alive hosts in the returned report.
C19_FinalProgressExact ==
    ( /\ mode = "progress"
      /\ ReturnedOk
      /\ config.start_ip <= config.end_ip
      /\ config.ports # << >> )
    => /\ Cardinality({ t \in Tasks : tasks[t].cur = total_hosts }) = 1
       /\ \A t \in Tasks :
             tasks[t].cur = total_hosts => tasks[t].seen = Some(AliveCount(ret.value))

\* C20: for start_ip <= end_ip, both in 0..255, the u8 expression
\* end_ip - start_ip + 1 of scan_with_progress does not overflow, and
\* total_hosts is the number of addresses start_ip..=end_ip iterates.
C20_TotalHostsFits ==
    (mode = "progress" /\ config.start_ip <= config.end_ip) =>
       /\ pc # "panicked"
       /\ total_hosts = Len(RangeInclusive(config.start_ip, config.end_ip))

====
